---- MODULE Spec2Model ----
(***************************************************************************)
(* Model of src/AtomSpace/ForeachChaseLink.h: the PrivateUseOnlyChaseLink  *)
(* iterator (follow_link, follow_link_lh, find_link_type, pursue_link) and *)
(* the four public wrappers follow_binary_link / backtrack_binary_link.    *)
(*                                                                         *)
(* The atom table, the handle <-> atom lookup (TLB) and the two foreach    *)
(* iteration services (Foreach.h) are not part of the source file; they    *)
(* are modelled from the specification's description of them.              *)
(***************************************************************************)
EXTENDS Integers, Sequences, FiniteSets, TLC

\* ------------------------------------------------------------------ bounds
MaxMembers == 3    \* members of all the links of a generic store, together
MaxPos     == 2    \* positions passed to follow_link range over 0..MaxPos

\* ------------------------------------------------------------- the store
NODE        == "CONCEPT_NODE"
INHERITANCE == "INHERITANCE_LINK"
SIMILARITY  == "SIMILARITY_LINK"
LinkTypes   == {INHERITANCE, SIMILARITY}

\* Atom* values are tagged handles; the null pointer is the empty tuple.
NULL == << >>

VARIABLES
    atomTable,   \* handle -> [type, outgoing]: the externally owned store
    cl,          \* the fields of the PrivateUseOnlyChaseLink instance in use
    pc,          \* where the running call is
    call,        \* the entry point and arguments of the running / last call
    i,           \* foreach_incoming_atom: index of the current incoming entry
    j,           \* foreach_outgoing_atom: index of the current member
    rc,          \* the value the last call returned
    log,         \* visitor invocations of the running / last call
    examined,    \* incoming entries handed to find_link_type, in order
    visited,     \* <<incoming entry, member index>> handed to pursue_link
    outer        \* the call whose visitor started the running call, if any

vars == << atomTable, cl, pc, call, i, j, rc, log, examined, visited, outer >>

\* The nodes of a generic store: a start atom and another one.
Nodes == { 1, 2 }

RECURSIVE SeqsUpTo(_, _)
SeqsUpTo(S, n) ==
    IF n = 0 THEN { << >> }
    ELSE LET shorter == SeqsUpTo(S, n - 1)
         IN  shorter \cup { Append(s, x) : s \in shorter, x \in S }

\* The links with n members at most.
LinkAtoms(n) == [ type : LinkTypes, outgoing : SeqsUpTo(Nodes, n) \ { << >> } ]
NodeAtom     == [ type |-> NODE, outgoing |-> << >> ]

\* The sequences of links with n members at most, all links together.
RECURSIVE LinkSeqs(_)
LinkSeqs(n) ==
    { << >> } \cup
    UNION { { << l >> \o rest : rest \in LinkSeqs(n - Len(l.outgoing)) } :
            l \in LinkAtoms(n) }

\* Nodes get the handles 1..n, links the handles after them.
MakeTable(n, ls) ==
    [ h \in 1..(n + Len(ls)) |-> IF h <= n THEN NodeAtom ELSE ls[h - n] ]

GenericTables == { MakeTable(Cardinality(Nodes), ls) : ls \in LinkSeqs(MaxMembers) }

\* A handle that resolves to no atom.
StaleHandle == Cardinality(Nodes) + MaxMembers + 4

\* a = 1, b = 2, c = 3; L1 = Inheritance(a,b), L2 = Inheritance(a,c),
\* L3 = Similarity(a,b).
ScenarioTable ==
    MakeTable(3, << [ type |-> INHERITANCE, outgoing |-> << 1, 2 >> ],
                    [ type |-> INHERITANCE, outgoing |-> << 1, 3 >> ],
                    [ type |-> SIMILARITY,  outgoing |-> << 1, 2 >> ] >>)

\* a = 1, b = 2; Inheritance(b,a) enumerated before Inheritance(a,b).
MixedTable ==
    MakeTable(2, << [ type |-> INHERITANCE, outgoing |-> << 2, 1 >> ],
                    [ type |-> INHERITANCE, outgoing |-> << 1, 2 >> ] >>)

\* TLB::getAtom / TLB::getHandle
getAtom(h)   == IF h \in DOMAIN atomTable THEN << "Atom", h >> ELSE NULL
getHandle(a) == a[2]

getType(a)     == atomTable[getHandle(a)].type
getOutgoing(a) == atomTable[getHandle(a)].outgoing
getArity(a)    == Len(getOutgoing(a))

RECURSIVE Ascending(_)
Ascending(S) ==
    IF S = {} THEN << >>
    ELSE LET m == CHOOSE x \in S : \A y \in S : x <= y
         IN  << m >> \o Ascending(S \ {m})

\* The links that list the atom of handle h in their outgoing set, in the
\* order the store enumerates them.
IncomingSet(h) ==
    Ascending({ l \in DOMAIN atomTable :
                  \E k \in 1..Len(atomTable[l].outgoing) :
                      atomTable[l].outgoing[k] = h })

\* ------------------------------------------------------- the chase object
\* The value of a field no statement has assigned yet.
Indeterminate == << "indeterminate" >>

FreshInstance ==
    [ link_type        |-> Indeterminate,
      from_atom        |-> Indeterminate,
      to_atom          |-> Indeterminate,
      position_from    |-> Indeterminate,
      position_to      |-> Indeterminate,
      cnt              |-> Indeterminate,
      user_callback    |-> Indeterminate,
      user_callback_lh |-> Indeterminate,
      user_data        |-> Indeterminate ]

NoCall == [ op |-> "none", h |-> 0, ltype |-> NODE, from |-> 0, to |-> 0 ]

\* No call is waiting for a visitor to return.
NoFrame ==
    [ state    |-> "none",
      shared   |-> FALSE,
      nested   |-> NoCall,
      call     |-> NoCall,
      cl       |-> FreshInstance,
      i        |-> 0,
      j        |-> 0,
      log      |-> << >>,
      examined |-> << >>,
      visited  |-> {},
      pending  |-> [ target |-> 0, link |-> 0, entry |-> 0 ],
      nlog     |-> << >>,
      nrc      |-> FALSE ]

Init ==
    /\ atomTable \in GenericTables \cup { ScenarioTable, MixedTable }
    /\ cl = FreshInstance
    /\ pc = "idle"
    /\ call = NoCall
    /\ i = 0
    /\ j = 0
    /\ rc = FALSE
    /\ log = << >>
    /\ examined = << >>
    /\ visited = {}
    /\ outer = NoFrame

Handles   == DOMAIN atomTable \cup { StaleHandle }
Positions == 0..MaxPos

\* The link the running call is examining, and start's incoming set.
Incoming  == IncomingSet(call.h)
Candidate == getAtom(Incoming[i])

\* follow_link, lines 80-87: the fields after the assignments.
follow_link_setup(c, atom, ltype, from, to) ==
    [ c EXCEPT !.link_type = ltype,
               !.from_atom = atom,
               !.to_atom = NULL,
               !.position_from = from,
               !.position_to = to,
               !.user_callback = << "cb" >>,
               !.user_callback_lh = NULL,
               !.user_data = << "data" >> ]

\* follow_link_lh, lines 105-112.
follow_link_lh_setup(c, atom, ltype, from, to) ==
    [ c EXCEPT !.link_type = ltype,
               !.from_atom = atom,
               !.to_atom = NULL,
               !.position_from = from,
               !.position_to = to,
               !.user_callback = NULL,
               !.user_callback_lh = << "cb_lh" >>,
               !.user_data = << "data" >> ]

\* follow_link without the test of line 76.
follow_link_no_null_test(c, h, ltype, from, to) ==
    LET atom == getAtom(h) IN
    /\ cl' = follow_link_setup(c, atom, ltype, from, to)
    /\ rc' = FALSE
    /\ pc' = "incoming"
    /\ i' = 1

\* follow_link, lines 72-90, on an instance whose fields are c.
follow_link(c, h, ltype, from, to) ==
    LET atom == getAtom(h) IN
    IF NULL = atom
    THEN /\ cl' = c
         /\ rc' = FALSE          \* return NULL, converted to bool
         /\ pc' = "done"
         /\ i' = 0
    ELSE /\ cl' = follow_link_setup(c, atom, ltype, from, to)
         /\ rc' = FALSE
         /\ pc' = "incoming"
         /\ i' = 1

\* follow_link_lh, lines 96-115.
follow_link_lh(c, h, ltype, from, to) ==
    LET atom == getAtom(h) IN
    IF NULL = atom
    THEN /\ cl' = c
         /\ rc' = FALSE
         /\ pc' = "done"
         /\ i' = 0
    ELSE /\ cl' = follow_link_lh_setup(c, atom, ltype, from, to)
         /\ rc' = FALSE
         /\ pc' = "incoming"
         /\ i' = 1

\* The wrappers, lines 188-226: a new local instance per call.
follow_binary_link(h, ltype) ==
    follow_link(FreshInstance, h, ltype, 0, 1)

\* The link-aware forward wrapper with the positions of the backward one.
follow_binary_link_lh_reversed(h, ltype) ==
    follow_link_lh(FreshInstance, h, ltype, 1, 0)

follow_binary_link_lh(h, ltype) ==
    follow_link_lh(FreshInstance, h, ltype, 0, 1)

\* The backward wrapper with the positions of the forward one.
backtrack_binary_link_forward(h, ltype) ==
    follow_link(FreshInstance, h, ltype, 0, 1)

backtrack_binary_link(h, ltype) ==
    follow_link(FreshInstance, h, ltype, 1, 0)

backtrack_binary_link_lh(h, ltype) ==
    follow_link_lh(FreshInstance, h, ltype, 1, 0)

\* A caller starts a call when none is running.
Begin(op, h, ltype, from, to) ==
    /\ call' = [ op |-> op, h |-> h, ltype |-> ltype, from |-> from, to |-> to ]
    /\ j' = 0
    /\ log' = << >>
    /\ examined' = << >>
    /\ visited' = {}
    /\ UNCHANGED atomTable

CallFollowLink ==
    /\ pc = "idle"
    /\ \E h \in Handles, ltype \in LinkTypes, from \in Positions, to \in Positions :
        /\ Begin("follow_link", h, ltype, from, to)
        /\ follow_link(cl, h, ltype, from, to)
        /\ UNCHANGED outer

CallFollowLinkLh ==
    /\ pc = "idle"
    /\ \E h \in Handles, ltype \in LinkTypes, from \in Positions, to \in Positions :
        /\ Begin("follow_link_lh", h, ltype, from, to)
        /\ follow_link_lh(cl, h, ltype, from, to)
        /\ UNCHANGED outer

CallFollowBinaryLink ==
    /\ pc = "idle"
    /\ \E h \in Handles, ltype \in LinkTypes :
        /\ Begin("follow_binary_link", h, ltype, 0, 1)
        /\ follow_binary_link(h, ltype)
        /\ UNCHANGED outer

CallFollowBinaryLinkLh ==
    /\ pc = "idle"
    /\ \E h \in Handles, ltype \in LinkTypes :
        /\ Begin("follow_binary_link_lh", h, ltype, 0, 1)
        /\ follow_binary_link_lh(h, ltype)
        /\ UNCHANGED outer

CallBacktrackBinaryLink ==
    /\ pc = "idle"
    /\ \E h \in Handles, ltype \in LinkTypes :
        /\ Begin("backtrack_binary_link", h, ltype, 1, 0)
        /\ backtrack_binary_link(h, ltype)
        /\ UNCHANGED outer

CallBacktrackBinaryLinkLh ==
    /\ pc = "idle"
    /\ \E h \in Handles, ltype \in LinkTypes :
        /\ Begin("backtrack_binary_link_lh", h, ltype, 1, 0)
        /\ backtrack_binary_link_lh(h, ltype)
        /\ UNCHANGED outer

\* An enumeration that hands the same entry out again after a callback that
\* returned false.
IncomingNext_repeats(stop) ==
    IF stop
    THEN /\ pc' = "done"
         /\ rc' = TRUE
         /\ i' = i
    ELSE /\ pc' = "incoming"
         /\ rc' = rc
         /\ i' = i

\* foreach_incoming_atom: the value returned to it by the per-link callback
\* decides between stopping (and returning true) and the next entry.
IncomingNext(stop) ==
    IF stop
    THEN /\ pc' = "done"
         /\ rc' = TRUE
         /\ i' = i
    ELSE /\ pc' = "incoming"
         /\ rc' = rc
         /\ i' = i + 1

\* foreach_incoming_atom ran out of entries: it returns false.
IncomingDone ==
    /\ pc = "incoming"
    /\ i > Len(Incoming)
    /\ pc' = "done"
    /\ rc' = FALSE
    /\ UNCHANGED << atomTable, cl, call, i, j, log, examined, visited, outer >>

\* find_link_type with an assignment where line 134 compares: the link
\* takes the type that is looked for.
FindLinkTypeSkip_assigns ==
    /\ pc = "incoming"
    /\ i <= Len(Incoming)
    /\ cl.link_type # getType(Candidate)
    /\ atomTable' = [ atomTable EXCEPT ![Incoming[i]].type = cl.link_type ]
    /\ IncomingNext(FALSE)
    /\ examined' = Append(examined, i)
    /\ UNCHANGED << cl, call, j, log, visited, outer >>

\* find_link_type, lines 133-134: a link of another type.
FindLinkTypeSkip ==
    /\ pc = "incoming"
    /\ i <= Len(Incoming)
    /\ cl.link_type # getType(Candidate)
    /\ IncomingNext(FALSE)
    /\ examined' = Append(examined, i)
    /\ UNCHANGED << atomTable, cl, call, j, log, visited, outer >>

\* find_link_type without the statement of line 137.
find_link_type_reset_cnt_only(c) == [ c EXCEPT !.cnt = -1 ]

\* find_link_type, lines 136-137.
find_link_type_reset(c) == [ c EXCEPT !.cnt = -1, !.to_atom = NULL ]

\* find_link_type without the type test of line 134.
FindLinkTypeWalk_any_type ==
    /\ pc = "incoming"
    /\ i <= Len(Incoming)
    /\ cl' = find_link_type_reset(cl)
    /\ j' = 1
    /\ pc' = "outgoing"
    /\ examined' = Append(examined, i)
    /\ UNCHANGED << atomTable, call, i, rc, log, visited, outer >>

\* find_link_type, lines 136-139: start the walk of the outgoing set.
FindLinkTypeWalk ==
    /\ pc = "incoming"
    /\ i <= Len(Incoming)
    /\ cl.link_type = getType(Candidate)
    /\ cl' = find_link_type_reset(cl)
    /\ j' = 1
    /\ pc' = "outgoing"
    /\ examined' = Append(examined, i)
    /\ UNCHANGED << atomTable, call, i, rc, log, visited, outer >>

\* pursue_link without the statement of line 161: a target captured before
\* the source position is kept when the source check fails.
pursue_link_keeps_target(c, atom) ==
    LET c1 == [ c EXCEPT !.cnt = c.cnt + 1 ] IN
    IF c1.position_from = c1.cnt
    THEN IF c1.from_atom # atom
         THEN [ cl |-> c1, rc |-> TRUE ]
         ELSE [ cl |-> c1, rc |-> FALSE ]
    ELSE IF c1.position_to = c1.cnt
         THEN [ cl |-> [ c1 EXCEPT !.to_atom = atom ], rc |-> FALSE ]
         ELSE [ cl |-> c1, rc |-> FALSE ]

\* pursue_link answering false where line 162 answers true: the walk goes
\* on after a failed source check.
pursue_link_no_stop(c, atom) ==
    LET c1 == [ c EXCEPT !.cnt = c.cnt + 1 ] IN
    IF c1.position_from = c1.cnt
    THEN IF c1.from_atom # atom
         THEN [ cl |-> [ c1 EXCEPT !.to_atom = NULL ], rc |-> FALSE ]
         ELSE [ cl |-> c1, rc |-> FALSE ]
    ELSE IF c1.position_to = c1.cnt
         THEN [ cl |-> [ c1 EXCEPT !.to_atom = atom ], rc |-> FALSE ]
         ELSE [ cl |-> c1, rc |-> FALSE ]

\* pursue_link with the test of lines 168-171 ahead of the test of lines
\* 157-165: the target is captured before the source position is checked.
pursue_link_target_first(c, atom) ==
    LET c1 == [ c EXCEPT !.cnt = c.cnt + 1 ]
        c2 == IF c1.position_to = c1.cnt
              THEN [ c1 EXCEPT !.to_atom = atom ] ELSE c1
    IN
    IF c2.position_from = c2.cnt
    THEN IF c2.from_atom # atom
         THEN [ cl |-> [ c2 EXCEPT !.to_atom = NULL ], rc |-> TRUE ]
         ELSE [ cl |-> c2, rc |-> FALSE ]
    ELSE [ cl |-> c2, rc |-> FALSE ]

\* pursue_link, lines 152-174: the new fields and the returned value.
pursue_link(c, atom) ==
    LET c1 == [ c EXCEPT !.cnt = c.cnt + 1 ] IN
    IF c1.position_from = c1.cnt
    THEN IF c1.from_atom # atom
         THEN [ cl |-> [ c1 EXCEPT !.to_atom = NULL ], rc |-> TRUE ]
         ELSE [ cl |-> c1, rc |-> FALSE ]
    ELSE IF c1.position_to = c1.cnt
         THEN [ cl |-> [ c1 EXCEPT !.to_atom = atom ], rc |-> FALSE ]
         ELSE [ cl |-> c1, rc |-> FALSE ]

\* foreach_outgoing_atom hands member j to pursue_link and stops the walk
\* when it returns true.
PursueLink ==
    /\ pc = "outgoing"
    /\ j <= getArity(Candidate)
    /\ LET r == pursue_link(cl, getAtom(getOutgoing(Candidate)[j])) IN
         /\ cl' = r.cl
         /\ IF r.rc THEN pc' = "callback" /\ j' = j
                    ELSE pc' = "outgoing" /\ j' = j + 1
    /\ visited' = visited \cup { << i, j >> }
    /\ UNCHANGED << atomTable, call, i, rc, log, examined, outer >>

\* foreach_outgoing_atom ran out of members.
OutgoingDone ==
    /\ pc = "outgoing"
    /\ j > getArity(Candidate)
    /\ pc' = "callback"
    /\ UNCHANGED << atomTable, cl, call, i, j, rc, log, examined, visited, outer >>

\* find_link_type returning what foreach_outgoing_atom returned: true when
\* pursue_link stopped the walk.
NoTarget_returns_walk_result ==
    /\ pc = "callback"
    /\ cl.to_atom = NULL
    /\ IncomingNext(j <= getArity(Candidate))
    /\ UNCHANGED << atomTable, cl, call, j, log, examined, visited, outer >>

\* find_link_type, lines 141-149, no target captured: returns false.
NoTarget ==
    /\ pc = "callback"
    /\ cl.to_atom = NULL
    /\ IncomingNext(FALSE)
    /\ UNCHANGED << atomTable, cl, call, j, log, examined, visited, outer >>

\* find_link_type dropping the visitor's answer: line 149 returns false.
UserCallback_returns_false ==
    /\ pc = "callback"
    /\ cl.to_atom # NULL
    /\ cl.user_callback # NULL
    /\ \E stop \in BOOLEAN :
         /\ log' = Append(log, [ target |-> getHandle(cl.to_atom),
                                 link   |-> 0,
                                 entry  |-> i,
                                 stop   |-> stop ])
         /\ IncomingNext(FALSE)
    /\ UNCHANGED << atomTable, cl, call, j, examined, visited, outer >>

\* find_link_type, lines 144-145 and 149: the target-only visitor; the
\* visitor's answer is its own choice.
UserCallback ==
    /\ pc = "callback"
    /\ cl.to_atom # NULL
    /\ cl.user_callback # NULL
    /\ \E stop \in BOOLEAN :
         /\ log' = Append(log, [ target |-> getHandle(cl.to_atom),
                                 link   |-> 0,
                                 entry  |-> i,
                                 stop   |-> stop ])
         /\ IncomingNext(stop)
    /\ UNCHANGED << atomTable, cl, call, j, examined, visited, outer >>

\* find_link_type with the two arguments of line 147 exchanged.
UserCallbackLh_swapped ==
    /\ pc = "callback"
    /\ cl.to_atom # NULL
    /\ cl.user_callback = NULL
    /\ \E stop \in BOOLEAN :
         /\ log' = Append(log, [ target |-> getHandle(Candidate),
                                 link   |-> getHandle(cl.to_atom),
                                 entry  |-> i,
                                 stop   |-> stop ])
         /\ IncomingNext(stop)
    /\ UNCHANGED << atomTable, cl, call, j, examined, visited, outer >>

\* find_link_type, lines 146-147 and 149: the visitor that also gets the link.
UserCallbackLh ==
    /\ pc = "callback"
    /\ cl.to_atom # NULL
    /\ cl.user_callback = NULL
    /\ \E stop \in BOOLEAN :
         /\ log' = Append(log, [ target |-> getHandle(cl.to_atom),
                                 link   |-> getHandle(Candidate),
                                 entry  |-> i,
                                 stop   |-> stop ])
         /\ IncomingNext(stop)
    /\ UNCHANGED << atomTable, cl, call, j, examined, visited, outer >>

\* --------------------------------------------- a whole call in one piece
\* The same code run to completion against the current store, with a
\* visitor that returns true at its stopAt-th invocation (never, if 0).

\* foreach_outgoing_atom over members k.. of out with pursue_link: the fields
\* when the walk ends.
RECURSIVE WalkOutgoing(_, _, _)
WalkOutgoing(c, out, k) ==
    IF k > Len(out) THEN c
    ELSE LET r == pursue_link(c, getAtom(out[k]))
         IN  IF r.rc THEN r.cl ELSE WalkOutgoing(r.cl, out, k + 1)

\* foreach_incoming_atom over entries e.. of inc with find_link_type: the
\* visitor invocations and the value returned.
RECURSIVE WalkIncoming(_, _, _, _, _)
WalkIncoming(c, inc, e, calls, stopAt) ==
    IF e > Len(inc) THEN [ log |-> calls, rc |-> FALSE ]
    ELSE IF c.link_type # atomTable[inc[e]].type
    THEN WalkIncoming(c, inc, e + 1, calls, stopAt)
    ELSE LET c2 == WalkOutgoing(find_link_type_reset(c),
                                atomTable[inc[e]].outgoing, 1)
         IN  IF c2.to_atom = NULL
             THEN WalkIncoming(c2, inc, e + 1, calls, stopAt)
             ELSE LET stop == (Len(calls) + 1 = stopAt)
                      inv  == [ target |-> getHandle(c2.to_atom),
                                link   |-> IF c2.user_callback # NULL
                                           THEN 0 ELSE inc[e],
                                entry  |-> e,
                                stop   |-> stop ]
                  IN  IF stop
                      THEN [ log |-> Append(calls, inv), rc |-> TRUE ]
                      ELSE WalkIncoming(c2, inc, e + 1, Append(calls, inv), stopAt)

\* follow_link / follow_link_lh as a function of their arguments.
RunFollowLink(h, ltype, from, to, stopAt) ==
    LET atom == getAtom(h) IN
    IF NULL = atom THEN [ log |-> << >>, rc |-> FALSE ]
    ELSE WalkIncoming(follow_link_setup(FreshInstance, atom, ltype, from, to),
                      IncomingSet(h), 1, << >>, stopAt)

RunFollowLinkLh(h, ltype, from, to, stopAt) ==
    LET atom == getAtom(h) IN
    IF NULL = atom THEN [ log |-> << >>, rc |-> FALSE ]
    ELSE WalkIncoming(follow_link_lh_setup(FreshInstance, atom, ltype, from, to),
                      IncomingSet(h), 1, << >>, stopAt)

\* The caller takes the result; the instance is dropped.
Return ==
    /\ pc = "done"
    /\ outer.state # "suspended"
    /\ pc' = "idle"
    /\ cl' = FreshInstance
    /\ call' = NoCall
    /\ i' = 0
    /\ j' = 0
    /\ rc' = FALSE
    /\ log' = << >>
    /\ examined' = << >>
    /\ visited' = {}
    /\ outer' = NoFrame
    /\ UNCHANGED atomTable

Next ==
    \/ CallFollowLink
    \/ CallFollowLinkLh
    \/ CallFollowBinaryLink
    \/ CallFollowBinaryLinkLh
    \/ CallBacktrackBinaryLink
    \/ CallBacktrackBinaryLinkLh
    \/ IncomingDone
    \/ FindLinkTypeSkip
    \/ FindLinkTypeWalk
    \/ PursueLink
    \/ OutgoingDone
    \/ NoTarget
    \/ UserCallback
    \/ UserCallbackLh
    \/ Return

Spec == Init /\ [][Next]_vars

TypeOK ==
    /\ pc \in { "idle", "incoming", "outgoing", "callback", "done" }
    /\ rc \in BOOLEAN
    /\ i \in Nat
    /\ j \in Nat

\* ------------------------------------------------ vocabulary of the claims
Resolved     == getAtom(call.h) # NULL
Finished     == pc = "done"
NeverStopped == \A k \in 1..Len(log) : ~log[k].stop
Entries      == 1..Len(Incoming)

\* The incoming entry e: its link, type and members (positions from 0).
LinkOf(e)       == Incoming[e]
TypeOf(e)       == atomTable[LinkOf(e)].type
ArityOf(e)      == Len(atomTable[LinkOf(e)].outgoing)
HasMember(e, p) == p < ArityOf(e)
Member(e, p)    == atomTable[LinkOf(e)].outgoing[p + 1]

StartAt(e, p)   == HasMember(e, p) /\ Member(e, p) = call.h

\* The log is one invocation per entry of es, in order, each passing the
\* member at the target position.
ReportsExactly(es) ==
    /\ Len(log) = Len(es)
    /\ \A k \in 1..Len(es) :
         /\ log[k].entry = es[k]
         /\ HasMember(es[k], call.to)
         /\ log[k].target = Member(es[k], call.to)

ScenarioRun ==
    /\ atomTable = ScenarioTable
    /\ call.op = "follow_binary_link"
    /\ call.h = 1
    /\ call.ltype = INHERITANCE

Matches(e) ==
    /\ TypeOf(e) = call.ltype
    /\ StartAt(e, call.from)
    /\ HasMember(e, call.to)
    /\ call.to # call.from

\* The entries for which the walk of pursue_link leaves a target captured.
Captures(e) ==
    /\ HasMember(e, call.to)
    /\ call.to # call.from
    /\ HasMember(e, call.from) => Member(e, call.from) = call.h

C2_PositionFiltering ==
    \A k \in 1..Len(log) :
        TypeOf(log[k].entry) = call.ltype => StartAt(log[k].entry, call.from)

\* C3: the visitor is not invoked for a link with N members when
\* sourcePos >= N or targetPos >= N.
C3_OutOfRange ==
    \A k \in 1..Len(log) :
        ~ (call.from >= ArityOf(log[k].entry) \/ call.to >= ArityOf(log[k].entry))

\* C4: a candidate of another type is never reported and never walked, and
\* after it the enumeration goes on with the next entry.
C4_TypeFiltering ==
    /\ \A k \in 1..Len(log) : TypeOf(log[k].entry) = call.ltype
    /\ \A v \in visited : TypeOf(v[1]) = call.ltype
    /\ pc \in { "outgoing", "callback" } => TypeOf(i) = call.ltype
    /\ \A k \in 1..Len(examined) :
         /\ examined[k] = k
         /\ (k = Len(examined) /\ TypeOf(k) # call.ltype) =>
               /\ i = k + 1
               /\ pc = "incoming" \/ (Finished /\ ~rc /\ k = Len(Incoming))

C4_Witness ==
    /\ Finished
    /\ Len(log) >= 1
    /\ \E k \in 1..Len(examined) :
         /\ k < log[Len(log)].entry
         /\ TypeOf(k) # call.ltype
         /\ StartAt(k, call.from)
         /\ HasMember(k, call.to)
         /\ call.to # call.from

\* C5: a visitor invocation that returns true is the last one; the call
\* is then over with result true, and no candidate after that one has been
\* type-tested or walked.
C5_EarlyExit ==
    \A k \in 1..Len(log) :
        log[k].stop =>
            /\ k = Len(log)
            /\ Finished /\ rc
            /\ examined[Len(examined)] = log[k].entry
            /\ \A v \in visited : v[1] <= log[k].entry

C5_Witness ==
    /\ Finished /\ rc
    /\ Len(log) = 1
    /\ \E e \in Entries :
         /\ e > log[1].entry
         /\ Matches(e)
         /\ Matches(log[1].entry)

\* C6: the result is true exactly when some visitor invocation returned
\* true; with an empty incoming set the visitor is never invoked; and the
\* result is false when no link of the requested type holds start at
\* sourcePos.
C6_Result ==
    Finished =>
        /\ rc <=> \E k \in 1..Len(log) : log[k].stop
        /\ (Resolved /\ Incoming = << >>) => (~rc /\ log = << >>)
        /\ (Resolved /\ ~ \E e \in Entries :
                TypeOf(e) = call.ltype /\ StartAt(e, call.from)) => ~rc

\* C7: a start handle that resolves to no atom makes the call return false
\* at once: no incoming entry is enumerated and the visitor is not invoked.
C7_Unresolvable ==
    (pc # "idle" /\ ~Resolved) =>
        /\ Finished /\ ~rc
        /\ log = << >>
        /\ examined = << >>
        /\ visited = {}

C7_Witness ==
    /\ Finished
    /\ call.h = StaleHandle
    /\ call.op = "follow_link_lh"

BinaryLinks ==
    { l \in DOMAIN atomTable :
        atomTable[l].type = call.ltype /\ Len(atomTable[l].outgoing) = 2 }

Reported(l, target) ==
    \E k \in 1..Len(log) : LinkOf(log[k].entry) = l /\ log[k].target = target

\* C8: with a visitor that never halts, the forward chase from A reports B
\* for every binary link (A, B) of the requested type, and the backward
\* chase from B reports A for it.
C8_Symmetry ==
    (Finished /\ NeverStopped) =>
        \A l \in BinaryLinks :
            LET A == atomTable[l].outgoing[1]
                B == atomTable[l].outgoing[2]
            IN  /\ (call.op = "follow_binary_link" /\ call.h = A)
                       => Reported(l, B)
                /\ (call.op = "backtrack_binary_link" /\ call.h = B)
                       => Reported(l, A)

C8_Witness ==
    /\ Finished /\ NeverStopped
    /\ call.op = "backtrack_binary_link"
    /\ \E l \in BinaryLinks :
         /\ atomTable[l].outgoing[2] = call.h
         /\ atomTable[l].outgoing[1] # call.h

\* The invocation at which the visitor of the observed call halted, 0 if
\* it never did.
StoppedAt == IF log # << >> /\ log[Len(log)].stop THEN Len(log) ELSE 0

Targets(l) == [ k \in 1..Len(l) |-> l[k].target ]
Stops(l)   == [ k \in 1..Len(l) |-> l[k].stop ]

\* C9: a follow_link_lh call makes the visitor invocations, with the same
\* targets, and returns the result that follow_link makes and returns for
\* the same arguments and the same visitor answers; each invocation passes
\* the link being examined, whose member at targetPos is the target passed.
C9_LinkAware ==
    (Finished /\ call.op = "follow_link_lh") =>
        LET ref == RunFollowLink(call.h, call.ltype, call.from, call.to, StoppedAt)
        IN  /\ Targets(log) = Targets(ref.log)
            /\ Stops(log) = Stops(ref.log)
            /\ rc = ref.rc
            /\ \A k \in 1..Len(log) :
                 /\ log[k].link = LinkOf(log[k].entry)
                 /\ \E m \in 1..Len(examined) : examined[m] = log[k].entry
                 /\ HasMember(log[k].entry, call.to)
                 /\ log[k].target = Member(log[k].entry, call.to)

C9_Witness ==
    /\ Finished /\ call.op = "follow_link_lh"
    /\ Len(log) = 2
    /\ log[1].link # log[2].link
    /\ log[1].target # log[2].target

\* C10: each wrapper makes the visitor invocations and returns the result
\* of follow_link / follow_link_lh with positions (0, 1) when following and
\* (1, 0) when backtracking.
C10_Wrappers ==
    Finished =>
        /\ call.op = "follow_binary_link" =>
             LET ref == RunFollowLink(call.h, call.ltype, 0, 1, StoppedAt)
             IN  log = ref.log /\ rc = ref.rc
        /\ call.op = "follow_binary_link_lh" =>
             LET ref == RunFollowLinkLh(call.h, call.ltype, 0, 1, StoppedAt)
             IN  log = ref.log /\ rc = ref.rc
        /\ call.op = "backtrack_binary_link" =>
             LET ref == RunFollowLink(call.h, call.ltype, 1, 0, StoppedAt)
             IN  log = ref.log /\ rc = ref.rc
        /\ call.op = "backtrack_binary_link_lh" =>
             LET ref == RunFollowLinkLh(call.h, call.ltype, 1, 0, StoppedAt)
             IN  log = ref.log /\ rc = ref.rc

C10_Witness ==
    /\ Finished /\ call.op = "backtrack_binary_link_lh"
    /\ Len(log) >= 1
    /\ log[1].target # call.h

\* The step-by-step run of follow_link and follow_link_lh agrees with the
\* run in one piece.
RunAgreement ==
    Finished =>
        /\ call.op = "follow_link" =>
             LET ref == RunFollowLink(call.h, call.ltype, call.from, call.to, StoppedAt)
             IN  log = ref.log /\ rc = ref.rc
        /\ call.op = "follow_link_lh" =>
             LET ref == RunFollowLinkLh(call.h, call.ltype, call.from, call.to, StoppedAt)
             IN  log = ref.log /\ rc = ref.rc

\* C12: no step of a call changes the store: the atoms stay the same and
\* each keeps its type and its outgoing sequence, hence its incoming set,
\* which IncomingSet reads off the outgoing sequences.
C12_ReadOnly ==
    [][ /\ DOMAIN atomTable' = DOMAIN atomTable
        /\ \A h \in DOMAIN atomTable :
             /\ atomTable'[h].type = atomTable[h].type
             /\ atomTable'[h].outgoing = atomTable[h].outgoing ]_vars

C12_Witness ==
    /\ Finished
    /\ Len(examined) >= 2
    /\ Len(log) >= 1
    /\ \E e \in 1..Len(examined) : TypeOf(e) # call.ltype

\* An entry of the requested type whose member at the source position is
\* not start.
Mismatch(e) ==
    /\ TypeOf(e) = call.ltype
    /\ HasMember(e, call.from)
    /\ Member(e, call.from) # call.h

\* C14: after a candidate with another atom at the source position the
\* enumeration goes on with the next entry; a call whose visitor never
\* halts examines every entry and reports every matching one.
C14_MismatchContinues ==
    /\ \A k \in 1..Len(examined) :
         (k = Len(examined) /\ Mismatch(k) /\ pc \notin { "outgoing", "callback" }) =>
             /\ i = k + 1
             /\ pc = "incoming" \/ (Finished /\ ~rc /\ k = Len(Incoming))
    /\ (Finished /\ Resolved /\ NeverStopped) =>
         /\ Len(examined) = Len(Incoming)
         /\ \A e \in Entries :
              Matches(e) => \E k \in 1..Len(log) : log[k].entry = e

C14_Witness ==
    /\ Finished
    /\ \E k \in 1..Len(log) :
         /\ Matches(log[k].entry)
         /\ \E e \in Entries : e < log[k].entry /\ Mismatch(e)

\* C15: for a link of the requested type with another atom than start at
\* the source position, no member beyond the source position is visited,
\* the walk ends at the source position with no target captured, and the
\* visitor is not invoked for that link.
C15_Abandon ==
    \A e \in 1..Len(examined) :
        Mismatch(e) =>
          /\ \A v \in visited : v[1] = e => v[2] <= call.from + 1
          /\ \A k \in 1..Len(log) : log[k].entry # e
          /\ (pc = "callback" /\ i = e) =>
               /\ cl.to_atom = NULL
               /\ j = call.from + 1

\* A target was captured before the source position and a member follows it.
C15_Witness ==
    /\ pc = "callback"
    /\ Mismatch(i)
    /\ call.to < call.from
    /\ << i, call.to + 1 >> \in visited
    /\ HasMember(i, call.from + 1)

\* C17: a call with the source position equal to the target position never
\* captures a target, never invokes the visitor and returns false.
C17_Degenerate ==
    (pc # "idle" /\ call.from = call.to) =>
        /\ log = << >>
        /\ pc = "callback" => cl.to_atom = NULL
        /\ Finished => ~rc

\* Such a call has walked a link of the requested type with start at the
\* common position, and has returned.
C17_Witness ==
    /\ Finished
    /\ call.from = call.to
    /\ \E e \in Entries :
         /\ TypeOf(e) = call.ltype
         /\ StartAt(e, call.from)
         /\ << e, call.from + 1 >> \in visited

\* ------------------------------------------------------------ termination
\* A call runs synchronously on its caller's thread: once started, each
\* statement of follow_link, find_link_type and pursue_link is executed, the
\* enumerations hand out their next entry and the visitor returns.
Step ==
    \/ IncomingDone
    \/ FindLinkTypeSkip
    \/ FindLinkTypeWalk
    \/ PursueLink
    \/ OutgoingDone
    \/ NoTarget
    \/ UserCallback
    \/ UserCallbackLh

\* Where a call stands: every step moves it.
position == << pc, i, j >>

\* The stores one member short of the bound, and the two written out.
LiveTables ==
    { MakeTable(Cardinality(Nodes), ls) : ls \in LinkSeqs(MaxMembers - 1) }
        \cup { ScenarioTable, MixedTable }

LiveInit ==
    /\ atomTable \in LiveTables
    /\ cl = FreshInstance
    /\ pc = "idle"
    /\ call = NoCall
    /\ i = 0
    /\ j = 0
    /\ rc = FALSE
    /\ log = << >>
    /\ examined = << >>
    /\ visited = {}
    /\ outer = NoFrame

LiveSpec == LiveInit /\ [][Next]_vars /\ WF_position(Step)

\* C13: every call that was started returns, and no entry of the incoming
\* set is handed to find_link_type twice.
C13_Termination ==
    /\ [](\A k, m \in 1..Len(examined) : examined[k] = examined[m] => k = m)
    /\ (pc # "idle") ~> Finished

\* A call that returned after going through an incoming set of several
\* entries, with a walk of an outgoing set.
C13_Witness ==
    /\ Finished
    /\ Len(Incoming) >= 2
    /\ Len(examined) = Len(Incoming)
    /\ visited # { }

\* ------------------------------------------------------------ nested calls
\* A visitor may itself start a call before it returns; the call that invoked
\* it waits inside find_link_type, lines 144-147, with its argument values
\* already taken.
Wrappers ==
    { "follow_binary_link", "follow_binary_link_lh",
      "backtrack_binary_link", "backtrack_binary_link_lh" }

Suspend(shared, op, h, ltype, from, to) ==
    /\ outer' = [ state    |-> "suspended",
                  shared   |-> shared,
                  nested   |-> [ op |-> op, h |-> h, ltype |-> ltype,
                                 from |-> from, to |-> to ],
                  call     |-> call,
                  cl       |-> cl,
                  i        |-> i,
                  j        |-> j,
                  log      |-> log,
                  examined |-> examined,
                  visited  |-> visited,
                  pending  |-> [ target |-> getHandle(cl.to_atom),
                                 link   |-> IF cl.user_callback # NULL
                                            THEN 0 ELSE getHandle(Candidate),
                                 entry  |-> i ],
                  nlog     |-> << >>,
                  nrc      |-> FALSE ]
    /\ Begin(op, h, ltype, from, to)

\* The visitor of a follow_link / follow_link_lh call calls follow_link on
\* the instance it was called from.
NestedFollowLink ==
    /\ pc = "callback"
    /\ cl.to_atom # NULL
    /\ outer.state = "none"
    /\ call.op \in { "follow_link", "follow_link_lh" }
    /\ \E h \in Handles, ltype \in LinkTypes, from \in Positions, to \in Positions :
        /\ Suspend(TRUE, "follow_link", h, ltype, from, to)
        /\ follow_link(cl, h, ltype, from, to)

NestedFollowLinkLh ==
    /\ pc = "callback"
    /\ cl.to_atom # NULL
    /\ outer.state = "none"
    /\ call.op \in { "follow_link", "follow_link_lh" }
    /\ \E h \in Handles, ltype \in LinkTypes, from \in Positions, to \in Positions :
        /\ Suspend(TRUE, "follow_link_lh", h, ltype, from, to)
        /\ follow_link_lh(cl, h, ltype, from, to)

\* The visitor of any call calls one of the wrappers, lines 188-226.
NestedWrapper ==
    /\ pc = "callback"
    /\ cl.to_atom # NULL
    /\ outer.state = "none"
    /\ \E h \in Handles, ltype \in LinkTypes :
        \/ /\ Suspend(FALSE, "follow_binary_link", h, ltype, 0, 1)
           /\ follow_binary_link(h, ltype)
        \/ /\ Suspend(FALSE, "follow_binary_link_lh", h, ltype, 0, 1)
           /\ follow_binary_link_lh(h, ltype)
        \/ /\ Suspend(FALSE, "backtrack_binary_link", h, ltype, 1, 0)
           /\ backtrack_binary_link(h, ltype)
        \/ /\ Suspend(FALSE, "backtrack_binary_link_lh", h, ltype, 1, 0)
           /\ backtrack_binary_link_lh(h, ltype)

\* The wrappers running on one instance they all share.
InstanceOnReturn_one_instance == cl

\* Every call running on a copy of the fields that it drops when it returns.
InstanceOnReturn_own_copy == outer.cl

\* The fields the waiting call finds when the nested call has returned: the
\* fields are members of the instance, lines 117-126, so a call on the same
\* instance leaves its assignments in them; a wrapper's instance is a local
\* of that wrapper call, lines 191, 202, 213 and 224.
InstanceOnReturn == IF outer.shared THEN cl ELSE outer.cl

\* The nested call returns to the visitor, the visitor returns to
\* find_link_type, lines 144-149, and the waiting call goes on.
NestedReturn ==
    /\ pc = "done"
    /\ outer.state = "suspended"
    /\ cl' = InstanceOnReturn
    /\ call' = outer.call
    /\ j' = outer.j
    /\ examined' = outer.examined
    /\ visited' = outer.visited
    /\ \E stop \in BOOLEAN :
         /\ log' = Append(outer.log, [ target |-> outer.pending.target,
                                       link   |-> outer.pending.link,
                                       entry  |-> outer.pending.entry,
                                       stop   |-> stop ])
         /\ IF stop
            THEN /\ pc' = "done"
                 /\ rc' = TRUE
                 /\ i' = outer.i
            ELSE /\ pc' = "incoming"
                 /\ rc' = FALSE
                 /\ i' = outer.i + 1
    /\ outer' = [ outer EXCEPT !.state = "resumed", !.nlog = log, !.nrc = rc ]
    /\ UNCHANGED atomTable

\* a = 1, b = 2; links of one, two and three members.
RaggedTable ==
    MakeTable(2, << [ type |-> INHERITANCE, outgoing |-> << 1, 2 >> ],
                    [ type |-> INHERITANCE, outgoing |-> << 1 >> ],
                    [ type |-> INHERITANCE, outgoing |-> << 2, 1, 1 >> ] >>)

NestedTables == { ScenarioTable, MixedTable, RaggedTable }

NestedInit ==
    /\ atomTable \in NestedTables
    /\ cl = FreshInstance
    /\ pc = "idle"
    /\ call = NoCall
    /\ i = 0
    /\ j = 0
    /\ rc = FALSE
    /\ log = << >>
    /\ examined = << >>
    /\ visited = {}
    /\ outer = NoFrame

NestedNext ==
    \/ Next
    \/ NestedFollowLink
    \/ NestedFollowLinkLh
    \/ NestedWrapper
    \/ NestedReturn

SpecNested == NestedInit /\ [][NestedNext]_vars

\* ------------------------------------------------- claims on nested calls
Resumed  == outer.state = "resumed"
InCall   == pc \in { "incoming", "outgoing", "callback" }

\* The fields a call reads while it examines its candidates are those its
\* own arguments set.
OwnContext ==
    /\ cl.link_type = call.ltype
    /\ cl.from_atom = getAtom(call.h)
    /\ cl.position_from = call.from
    /\ cl.position_to = call.to
    /\ cl.user_callback = outer.cl.user_callback
    /\ cl.user_callback_lh = outer.cl.user_callback_lh
    /\ cl.user_data = outer.cl.user_data

\* C11: a wrapper call whose visitor ran another wrapper call goes on with
\* its own link type, start atom and positions, and makes the invocations
\* and returns the result of the same call run without a nested call.
C11_Reentrant ==
    (Resumed /\ call.op \in Wrappers /\ outer.nested.op \in Wrappers) =>
        /\ InCall => OwnContext
        /\ Finished =>
             LET ref == IF call.op \in { "follow_binary_link", "backtrack_binary_link" }
                        THEN RunFollowLink(call.h, call.ltype, call.from, call.to, StoppedAt)
                        ELSE RunFollowLinkLh(call.h, call.ltype, call.from, call.to, StoppedAt)
             IN  log = ref.log /\ rc = ref.rc

\* The nested wrapper call had another start and another type and reported
\* a target; the outer call reported a later candidate after it.
C11_Witness ==
    /\ Finished /\ Resumed
    /\ call.op \in Wrappers /\ outer.nested.op \in Wrappers
    /\ outer.nested.h # call.h
    /\ outer.nested.ltype # call.ltype
    /\ outer.nested.from # call.from
    /\ outer.nlog # << >>
    /\ log[Len(log)].entry > outer.pending.entry

\* C16 as stated: after a nested follow_link / follow_link_lh on the same
\* instance the outer call still has its own context.
C16_AsStated ==
    (Resumed /\ outer.shared /\ InCall) => OwnContext

\* The fields as a call with the arguments of n on atom leaves them.
NestedContext(n) ==
    /\ cl.link_type = n.ltype
    /\ cl.from_atom = getAtom(n.h)
    /\ cl.position_from = n.from
    /\ cl.position_to = n.to
    /\ cl.user_data = << "data" >>
    /\ IF n.op = "follow_link"
       THEN cl.user_callback = << "cb" >> /\ cl.user_callback_lh = NULL
       ELSE cl.user_callback = NULL /\ cl.user_callback_lh = << "cb_lh" >>

\* C16 amended: the context is the fields of the instance. After a nested
\* call on the same instance the outer call goes through the rest of its own
\* incoming set with the context the nested call assigned, its own only when
\* the nested start handle resolved to no atom.
C16_SharedContext ==
    (Resumed /\ outer.shared) =>
        LET n    == outer.nested
            done == Len(outer.log) + 1
            c    == IF getAtom(n.h) = NULL THEN outer.cl
                    ELSE IF n.op = "follow_link"
                    THEN follow_link_setup(outer.cl, getAtom(n.h), n.ltype, n.from, n.to)
                    ELSE follow_link_lh_setup(outer.cl, getAtom(n.h), n.ltype, n.from, n.to)
        IN  /\ call = outer.call
            /\ IF getAtom(n.h) = NULL THEN OwnContext ELSE NestedContext(n)
            /\ (Finished /\ ~log[done].stop) =>
                 LET ref == WalkIncoming(c, Incoming, outer.i + 1,
                                         SubSeq(log, 1, done), StoppedAt)
                 IN  log = ref.log /\ rc = ref.rc

\* The outer call is about to report a target for a later candidate with a
\* link type, a start atom, positions and a visitor that are the nested call's.
C16_Witness ==
    /\ Resumed /\ outer.shared
    /\ pc = "callback" /\ cl.to_atom # NULL
    /\ i > outer.i
    /\ outer.nested.h # call.h
    /\ outer.nested.ltype # call.ltype
    /\ outer.nested.from # call.from
    /\ (outer.nested.op = "follow_link_lh") # (call.op = "follow_link_lh")

\* The target position in use when invocation k of the log was made.
TargetPosAt(k) ==
    IF /\ Resumed /\ outer.shared
       /\ k > Len(outer.log) + 1
       /\ getAtom(outer.nested.h) # NULL
    THEN outer.nested.to
    ELSE call.to

\* C18: the walk of a candidate starts with the counter at -1 and no target
\* captured; the counter is the 0-based index of the member visited last;
\* a target captured when the walk has ended is the member at the target
\* position of the candidate being examined, and so is every target passed
\* to the visitor.
C18_Reset ==
    /\ pc = "outgoing" =>
         /\ cl.cnt = j - 2
         /\ j = 1 => cl.to_atom = NULL
         /\ \A m \in 1..(j - 1) : << i, m >> \in visited
    /\ pc = "callback" =>
         /\ cl.cnt = IF j <= getArity(Candidate) THEN j - 1 ELSE j - 2
         /\ cl.to_atom # NULL =>
              /\ cl.position_to < getArity(Candidate)
              /\ cl.to_atom = getAtom(getOutgoing(Candidate)[cl.position_to + 1])
    /\ InCall => (outer.state = "none" => cl.position_to = call.to)
    /\ \A k \in 1..Len(log) :
         /\ HasMember(log[k].entry, TargetPosAt(k))
         /\ log[k].target = Member(log[k].entry, TargetPosAt(k))

\* A candidate without a member at the target position was walked after a
\* candidate that had its target reported and after a nested call on the
\* same instance, and nothing was reported for it.
C18_Witness ==
    /\ Finished /\ Resumed /\ outer.shared
    /\ outer.nlog # << >>
    /\ \E e \in Entries :
         /\ e > outer.pending.entry
         /\ << e, 1 >> \in visited
         /\ ~HasMember(e, TargetPosAt(Len(log) + 1))
         /\ \A k \in 1..Len(log) : log[k].entry # e

====
